---- MODULE Spec2Model ----
(***************************************************************************)
(* A model of dgoffredo/shortest-path:                                     *)
(*                                                                         *)
(*   - LispyList<Value> (lispylist.h): an immutable singly linked list     *)
(*     whose nodes are reference counted by hand;                          *)
(*   - cheapest_paths (shortestpath.cpp): the layer-by-layer dynamic       *)
(*     program over lists of VertexState, fed by LayerIterator/read_layer; *)
(*   - main (main.cpp): the x / y / z sharing example.                     *)
(*                                                                         *)
(* The free store is the variable heap: a sequence of cells indexed by     *)
(* address.  A list handle (a LispyList object) is the address in its      *)
(* `node` member, NULL for nullptr.                                        *)
(***************************************************************************)
EXTENDS Integers, Sequences, FiniteSets, TLC

(***************************************************************************)
(* Bounds of the exploration.                                              *)
(***************************************************************************)
\* list machine: number of nodes alive at once
MaxNodes == 3
\* accessors: number of nodes alive at once
MaxAccessNodes == 2
\* main.cpp generalised: longest chain built for x, y and z
MaxX == 4
MaxY == 3
MaxZ == 2
\* engine: lines per input, edges per input (all lines together)
MaxLayers == 2
MaxInputEdges == 3

\* values stored in the lists of the list machine
Values == {1, 2}
\* vertex names and edge weights of the edges fed to the engine
Vertices == {0, 1}
Weights == {1, 2}
\* tokens a line may hold after its last complete edge
Trailing == {0, 1, 2}

VARIABLES
  heap,            \* the free store: cells of LispyListNode
  handles,         \* list machine: handle -> DEAD, NULL or the address in `node`
  named,           \* main.cpp: x, y, z -> DEAD, NULL or address
  temps,           \* main.cpp: the temporaries of the statement being evaluated
  mainpc,          \* main.cpp: the statement being executed
  pc,              \* cheapest_paths: position in the function
  state,           \* LayerIterator::state is non-null
  incoming,        \* LayerGeneratorState::incoming, the edges of *layer
  idx,             \* position of `iter` in the relaxation loop (1-based)
  previous_layer,
  current_layer,
  layer_count,
  result,          \* the vector cheapest_paths returns
  lines_read,      \* the lines read from the input so far
  out              \* what the last call returned, when it is not a list

vars == <<heap, handles, named, temps, mainpc, pc, state, incoming, idx,
          previous_layer, current_layer, layer_count, result, lines_read, out>>

(***************************************************************************)
(* The free store.                                                         *)
(***************************************************************************)
NULL == 0
DEAD == -1

\* out after a call that returns a list or nothing
NoResult == [call |-> "none", values |-> <<>>, truth |-> FALSE]
\* out after assert(node) failed: the process is aborted
AssertionFailed == [call |-> "assert", values |-> <<>>, truth |-> FALSE]
\* out after a call that returned the values vs, or the truth value t
Returned(call, vs, t) == [call |-> call, values |-> vs, truth |-> t]

\* A cell that holds no node (never handed out again once faulted).
\* (`value` is a tuple: the one Value of a node, none in a free cell)
FreeCell == [value |-> <<>>, refcount |-> 0, next |-> NULL, live |-> FALSE, fault |-> FALSE]

SetMin(S) == CHOOSE x \in S : \A y \in S : x <= y

FreeAddrs(h) == {n \in 1..Len(h) : ~h[n].live /\ ~h[n].fault}

\* The address operator new hands out: a free cell, or fresh store.
NewAddr(h) == IF FreeAddrs(h) = {} THEN Len(h) + 1 ELSE SetMin(FreeAddrs(h))

\* new LispyListNode<Value>{.value = value, .refcount = 1, .next = next}
new_node(h, value, next) ==
  LET cell == [value |-> <<value>>, refcount |-> 1, next |-> next, live |-> TRUE, fault |-> FALSE]
  IN IF NewAddr(h) > Len(h) THEN Append(h, cell) ELSE [h EXCEPT ![NewAddr(h)] = cell]

\* if (node) { ++node->refcount; }   (touching a deleted node is recorded as a fault)
incref(h, node) ==
  IF node = NULL THEN h
  ELSE IF h[node].live THEN [h EXCEPT ![node].refcount = @ + 1]
  ELSE [h EXCEPT ![node].fault = TRUE]

\* variant of the loop condition: a node with one other owner left is deleted too
drops_to_zero_early(refcount) == refcount - 1 <= 1

\* the loop condition of cleanup: --current->refcount == 0
drops_to_zero(refcount) == refcount - 1 = 0

\* LispyList::cleanup: walk the chain, deleting while the count drops to zero.
RECURSIVE cleanup(_, _)
cleanup(h, current) ==
  IF current = NULL THEN h
  ELSE IF ~h[current].live THEN [h EXCEPT ![current].fault = TRUE]
  ELSE IF drops_to_zero(h[current].refcount)
       THEN cleanup([h EXCEPT ![current] = FreeCell], h[current].next)
       ELSE [h EXCEPT ![current].refcount = @ - 1]

(***************************************************************************)
(* LispyList member functions, as functions of the store and of the        *)
(* `node` members involved.  Each yields the new store and the `node` of   *)
(* the list it constructs or assigns.                                      *)
(***************************************************************************)
\* variant of copy_construct: the count of the shared head is not raised
copy_construct_no_incref(h, other) == [heap |-> h, node |-> other]

\* LispyList(const LispyList& other)
copy_construct(h, other) == [heap |-> incref(h, other), node |-> other]

\* operator=(const LispyList& other), other a different object
copy_assign(h, this, other) == [heap |-> incref(cleanup(h, this), other), node |-> other]

\* operator=(LispyList&& other), other a different object (other.node becomes nullptr)
move_assign(h, this, other) == [heap |-> cleanup(h, this), node |-> other]

\* head(): assert(node); return node->value
head(h, node) == h[node].value[1]

\* variant of tail: the count of the new head is not raised
tail_no_incref(h, node) == [heap |-> h, node |-> h[node].next]

\* tail(): assert(node); if (node->next) ++node->next->refcount; LispyList(node->next)
tail(h, node) == [heap |-> incref(h, h[node].next), node |-> h[node].next]

\* empty()
empty(node) == node = NULL

\* variant of equal: lists of the same values are equal
equal_by_values(h, this, other) ==
  LET RECURSIVE same(_, _)
      same(l, r) == IF l = NULL \/ r = NULL THEN l = r
                    ELSE h[l].value = h[r].value /\ same(h[l].next, h[r].next)
  IN same(this, other)

\* operator==(const LispyList& other): node == other.node
equal(h, this, other) == this = other

\* operator!=(const LispyList& other): node != other.node
not_equal(h, this, other) == this # other

\* begin(): LispyListIterator(node); an iterator is the address in its `node`
begin(node) == node

\* end(): LispyListIterator(), node(nullptr)
end == NULL

\* LispyListIterator::operator*: assert(node); return node->value
dereference(h, it) == h[it].value[1]

\* LispyListIterator::operator++(): if (node) node = node->next; return *this
\* (the iterator afterwards, which is also what is returned)
pre_increment(h, it) == IF it # NULL THEN h[it].next ELSE it

\* LispyListIterator::operator++(int) const: auto copy = *this; return ++copy;
\* the iterator itself stays where it is, the advanced copy is returned
post_increment(h, it) == [it |-> it, returned |-> pre_increment(h, it)]

\* the two ways a loop can step an iterator
IncrementForms == {"++it", "it++"}

\* the iterator after the loop's increment expression
advance(h, it, form) == IF form = "++it" THEN pre_increment(h, it) ELSE post_increment(h, it).it

\* for (it = ...; it != end(); <increment>) visit(*it): the values
\* visited, and whether the loop ends (a turn that leaves the iterator where
\* it is repeats for ever)
RECURSIVE traverse(_, _, _)
traverse(h, it, form) ==
  IF it = end THEN [values |-> <<>>, ended |-> TRUE]
  ELSE IF advance(h, it, form) = it
       THEN [values |-> <<dereference(h, it)>>, ended |-> FALSE]
       ELSE LET rest == traverse(h, advance(h, it, form), form)
            IN [values |-> <<dereference(h, it)>> \o rest.values, ended |-> rest.ended]

\* variant of prepend: the new node is not linked to the old head
prepend_unlinked(h, node, value) ==
  [heap |-> new_node(incref(h, node), value, NULL), node |-> NewAddr(h)]

\* variant of prepend: the count of the old head is not raised
prepend_no_incref(h, node, value) ==
  [heap |-> new_node(h, value, node), node |-> NewAddr(h)]

\* prepend(value): if (node) ++node->refcount; LispyList(new node{value, 1, node})
prepend(h, node, value) ==
  [heap |-> new_node(incref(h, node), value, node), node |-> NewAddr(h)]

(***************************************************************************)
(* Derived notions used to state properties.                               *)
(***************************************************************************)
LiveNodes(h) == {n \in 1..Len(h) : h[n].live}

\* the addresses of the chain that starts at node, front to back
RECURSIVE Chain(_, _)
Chain(h, node) ==
  IF node = NULL \/ node > Len(h) THEN <<>>
  ELSE IF ~h[node].live THEN <<node>>
  ELSE <<node>> \o Chain(h, h[node].next)

SeqRange(s) == {s[i] : i \in 1..Len(s)}

\* the values of the list that starts at node, front to back
ListValues(h, node) ==
  [i \in 1..Len(Chain(h, node)) |->
     IF h[Chain(h, node)[i]].value = <<>> THEN 0 ELSE h[Chain(h, node)[i]].value[1]]

(***************************************************************************)
(* The list machine: three LispyList<int> objects (two lists and the tail  *)
(* they share), any operation in any order.                                *)
(***************************************************************************)
Handles == {1, 2, 3}

NoEngine ==
  /\ pc = "idle" /\ state = FALSE /\ incoming = <<>> /\ idx = 0
  /\ previous_layer = <<>> /\ current_layer = <<>> /\ layer_count = 0
  /\ result = <<>> /\ lines_read = <<>>

NoMain == named = <<>> /\ temps = <<>> /\ mainpc = "idle"

InitList ==
  /\ heap = <<>>
  /\ handles = [b \in Handles |-> DEAD]
  /\ out = NoResult
  /\ NoMain
  /\ NoEngine

\* what no list operation touches; an operation that constructs, assigns or
\* destroys a list returns nothing else
ListFrame ==
  /\ UNCHANGED <<named, temps, mainpc, pc, state, incoming, idx,
                 previous_layer, current_layer, layer_count, result, lines_read>>
  /\ out' = NoResult

\* LispyList()
DefaultConstruct(b) ==
  /\ handles[b] = DEAD
  /\ handles' = [handles EXCEPT ![b] = NULL]
  /\ UNCHANGED heap
  /\ ListFrame

\* LispyList(const LispyList&)
CopyConstruct(b, a) ==
  /\ handles[b] = DEAD /\ handles[a] # DEAD
  /\ heap' = copy_construct(heap, handles[a]).heap
  /\ handles' = [handles EXCEPT ![b] = copy_construct(heap, handles[a]).node]
  /\ ListFrame

\* LispyList(LispyList&&)
MoveConstruct(b, a) ==
  /\ handles[b] = DEAD /\ handles[a] # DEAD
  /\ handles' = [handles EXCEPT ![b] = handles[a], ![a] = NULL]
  /\ UNCHANGED heap
  /\ ListFrame

\* ~LispyList()
Destroy(b) ==
  /\ handles[b] # DEAD
  /\ heap' = cleanup(heap, handles[b])
  /\ handles' = [handles EXCEPT ![b] = DEAD]
  /\ ListFrame

\* b = a;  (b and a may be the same object)
CopyAssign(b, a) ==
  /\ handles[b] # DEAD /\ handles[a] # DEAD
  /\ IF a = b
     THEN UNCHANGED <<heap, handles>>
     ELSE /\ heap' = copy_assign(heap, handles[b], handles[a]).heap
          /\ handles' = [handles EXCEPT ![b] = copy_assign(heap, handles[b], handles[a]).node]
  /\ ListFrame

\* b = std::move(a);  (b and a may be the same object)
MoveAssign(b, a) ==
  /\ handles[b] # DEAD /\ handles[a] # DEAD
  /\ IF a = b
     THEN UNCHANGED <<heap, handles>>
     ELSE /\ heap' = move_assign(heap, handles[b], handles[a]).heap
          /\ handles' = [handles EXCEPT ![b] = move_assign(heap, handles[b], handles[a]).node,
                                        ![a] = NULL]
  /\ ListFrame

\* LispyList b = a.prepend(v);
Prepend(b, a, v) ==
  /\ handles[b] = DEAD /\ handles[a] # DEAD
  /\ Cardinality(LiveNodes(heap)) < MaxNodes
  /\ heap' = prepend(heap, handles[a], v).heap
  /\ handles' = [handles EXCEPT ![b] = prepend(heap, handles[a], v).node]
  /\ ListFrame

\* LispyList b = a.tail();  (a not empty)
TailOf(b, a) ==
  /\ handles[b] = DEAD /\ handles[a] # DEAD /\ ~empty(handles[a])
  /\ heap' = tail(heap, handles[a]).heap
  /\ handles' = [handles EXCEPT ![b] = tail(heap, handles[a]).node]
  /\ ListFrame

NextList ==
  \/ \E b \in Handles : DefaultConstruct(b)
  \/ \E b, a \in Handles : CopyConstruct(b, a)
  \/ \E b, a \in Handles : MoveConstruct(b, a)
  \/ \E b \in Handles : Destroy(b)
  \/ \E b, a \in Handles : CopyAssign(b, a)
  \/ \E b, a \in Handles : MoveAssign(b, a)
  \/ \E b, a \in Handles, v \in Values : Prepend(b, a, v)
  \/ \E b, a \in Handles : TailOf(b, a)



SpecList == InitList /\ [][NextList]_vars

(***************************************************************************)
(* Properties of the list machine.                                         *)
(***************************************************************************)
LiveHandles == {b \in Handles : handles[b] # DEAD}

\* the nodes a step deletes
Deleted == LiveNodes(heap) \ LiveNodes(heap')

\* b gives up its list: its destructor runs, or another list is assigned to it
Releases(b) ==
  \/ Destroy(b)
  \/ \E c \in Handles \ {b} : CopyAssign(b, c) \/ MoveAssign(b, c)

\* C3: for b = a.prepend(v), b.tail() is the very list a (same head node, or
\* both empty), a itself is untouched, and whenever a list b whose tail is a
\* list a that is still held gives up its nodes, at most b's own head node is
\* deleted (exactly it when b is its only owner) and every node of a survives
\* with its value and link.
C3_PrependSharesTail ==
  [][ /\ \A b, a \in Handles : \A v \in Values :
           Prepend(b, a, v) =>
             /\ handles'[b] \notin LiveNodes(heap)
             /\ heap'[handles'[b]].live
             /\ tail(heap', handles'[b]).node = handles[a]
             /\ handles'[a] = handles[a]
      /\ \A b, a \in Handles :
           ( /\ a # b /\ handles[a] # DEAD /\ handles[b] > 0
             /\ heap[handles[b]].next = handles[a]
             /\ Releases(b) /\ handles'[a] = handles[a] )
           => /\ Deleted \subseteq {handles[b]}
              /\ heap[handles[b]].refcount = 1 => Deleted = {handles[b]}
              /\ \A n \in SeqRange(Chain(heap, handles[a])) :
                    /\ heap'[n].live
                    /\ heap'[n].value = heap[n].value
                    /\ heap'[n].next = heap[n].next
    ]_vars

\* C3 witness: b was released while the list a it was prepended onto is held:
\* b's head node is gone, a is a live non-empty list.
C3_Witness ==
  \E b, a \in Handles :
    /\ handles[b] = DEAD /\ handles[a] > 0
    /\ heap[handles[a]].live /\ heap[handles[a]].refcount = 1
    /\ FreeAddrs(heap) # {}

\* C4: no node is ever deleted twice or touched after its deletion, no live
\* list refers to a deleted node, and once every list is released no node
\* remains allocated.
C4_EveryNodeDeletedOnce ==
  /\ \A n \in 1..Len(heap) : ~heap[n].fault
  /\ \A b \in LiveHandles : handles[b] = NULL \/ heap[handles[b]].live
  /\ \A n \in LiveNodes(heap) :
        /\ heap[n].refcount >= 1
        /\ heap[n].next = NULL \/ heap[heap[n].next].live
  /\ LiveHandles = {} => LiveNodes(heap) = {}

\* C4 witness: every list is released after MaxNodes nodes were alive at once.
C4_Witness == LiveHandles = {} /\ Len(heap) >= 3

\* C14: b = a.prepend(v) yields v followed by a's values and leaves a the
\* same node with the same values; in every step each list that is not
\* constructed, assigned or destroyed by it keeps its values, and every node
\* that exists before and after keeps its value and its next link.
C14_PrependDoesNotMutate ==
  [][ /\ \A b, a \in Handles : \A v \in Values :
           Prepend(b, a, v) =>
             /\ ListValues(heap', handles'[b]) = <<v>> \o ListValues(heap, handles[a])
             /\ handles'[a] = handles[a]
             /\ ListValues(heap', handles'[a]) = ListValues(heap, handles[a])
             /\ \A c \in LiveHandles : handles'[c] = handles[c]
      /\ \A c \in LiveHandles :
           handles'[c] = handles[c] =>
             ListValues(heap', handles'[c]) = ListValues(heap, handles[c])
      /\ \A n \in LiveNodes(heap) \cap LiveNodes(heap') :
           /\ heap'[n].value = heap[n].value
           /\ heap'[n].next = heap[n].next
    ]_vars

\* C14 witness: b is a list prepended onto a non-empty list a that is still
\* held, next to a third non-empty list c that starts at another node.
C14_Witness ==
  \E b, a, c \in Handles :
    /\ handles[b] > 0 /\ handles[a] > 0 /\ handles[c] > 0
    /\ heap[handles[b]].next = handles[a]
    /\ handles[c] \notin {handles[a], handles[b]}

(***************************************************************************)
(* The accessors.  The list machine, with at most MaxAccessNodes nodes,    *)
(* and the calls that return something other than a list: head, tail on    *)
(* an empty list, operator==, operator!= and iteration.  A failed assert   *)
(* aborts the process: nothing happens after it.                           *)
(***************************************************************************)
Running == out.call # "assert"

AccessFrame == UNCHANGED <<named, temps, mainpc, pc, state, incoming, idx,
                           previous_layer, current_layer, layer_count, result, lines_read>>

\* a.head()
HeadOf(a) ==
  /\ handles[a] # DEAD
  /\ out' = IF handles[a] # NULL
            THEN Returned("head", <<head(heap, handles[a])>>, FALSE)
            ELSE AssertionFailed
  /\ UNCHANGED <<heap, handles>>
  /\ AccessFrame

\* a.tail() on an empty a: assert(node) fails before anything is touched
TailOfEmpty(a) ==
  /\ handles[a] # DEAD /\ handles[a] = NULL
  /\ out' = AssertionFailed
  /\ UNCHANGED <<heap, handles>>
  /\ AccessFrame

\* a == b
Equals(a, b) ==
  /\ handles[a] # DEAD /\ handles[b] # DEAD
  /\ out' = Returned("==", <<>>, equal(heap, handles[a], handles[b]))
  /\ UNCHANGED <<heap, handles>>
  /\ AccessFrame

\* a != b
NotEquals(a, b) ==
  /\ handles[a] # DEAD /\ handles[b] # DEAD
  /\ out' = Returned("!=", <<>>, not_equal(heap, handles[a], handles[b]))
  /\ UNCHANGED <<heap, handles>>
  /\ AccessFrame

\* a loop over a from begin() to end(), stepping in the given form
Iterate(a, form) ==
  /\ handles[a] # DEAD
  /\ LET walk == traverse(heap, begin(handles[a]), form)
     IN out' = Returned("range", walk.values, walk.ended)
  /\ UNCHANGED <<heap, handles>>
  /\ AccessFrame

NextAccess ==
  \/ Running /\ \E b \in Handles : DefaultConstruct(b)
  \/ Running /\ \E b, a \in Handles : CopyConstruct(b, a)
  \/ Running /\ \E b, a \in Handles : MoveConstruct(b, a)
  \/ Running /\ \E b \in Handles : Destroy(b)
  \/ Running /\ \E b, a \in Handles : CopyAssign(b, a)
  \/ Running /\ \E b, a \in Handles : MoveAssign(b, a)
  \/ Running /\ Cardinality(LiveNodes(heap)) < MaxAccessNodes
             /\ \E b, a \in Handles, v \in Values : Prepend(b, a, v)
  \/ Running /\ \E b, a \in Handles : TailOf(b, a)
  \/ Running /\ \E a \in Handles : HeadOf(a)
  \/ Running /\ \E a \in Handles : TailOfEmpty(a)
  \/ Running /\ \E a, b \in Handles : Equals(a, b)
  \/ Running /\ \E a, b \in Handles : NotEquals(a, b)
  \/ Running /\ \E a \in Handles, form \in IncrementForms : Iterate(a, form)

SpecAccess == InitList /\ [][NextAccess]_vars

\* C11: head() and tail() on an empty list fail the assertion and leave every
\* node and list as it was; head() on a non-empty list returns its front
\* value; b = a.tail() is the list of a's values after the first, its head is
\* a's second node (no node is made or deleted), which b now co-owns, and a
\* is unchanged.
C11_HeadAndTail ==
  [][ /\ \A a \in Handles :
           ((HeadOf(a) \/ TailOfEmpty(a)) /\ empty(handles[a])) =>
             out' = AssertionFailed /\ heap' = heap /\ handles' = handles
      /\ \A a \in Handles :
           (HeadOf(a) /\ ~empty(handles[a])) =>
             /\ out'.call = "head"
             /\ out'.values = <<ListValues(heap, handles[a])[1]>>
             /\ heap' = heap /\ handles' = handles
      /\ \A b, a \in Handles :
           TailOf(b, a) =>
             LET second == heap[handles[a]].next
             IN /\ out' = NoResult
                /\ handles'[b] = second
                /\ handles'[a] = handles[a]
                /\ ListValues(heap', handles'[b]) = Tail(ListValues(heap, handles[a]))
                /\ ListValues(heap', handles'[a]) = ListValues(heap, handles[a])
                /\ LiveNodes(heap') = LiveNodes(heap)
                /\ \A n \in LiveNodes(heap) :
                     heap'[n].refcount = heap[n].refcount + (IF n = second THEN 1 ELSE 0)
    ]_vars

\* C11 witness: an accessor failed on an empty list while a list and its
\* tail, a non-empty list, are both held.
C11_Witness ==
  /\ out = AssertionFailed
  /\ \E b, a \in Handles :
       /\ handles[a] > 0 /\ handles[b] > 0
       /\ handles[b] = heap[handles[a]].next
       /\ heap[handles[b]].refcount = 2

\* a and b start at the same node, or both have no node
SameList(a, b) ==
  \/ Chain(heap, handles[a]) = <<>> /\ Chain(heap, handles[b]) = <<>>
  \/ /\ Chain(heap, handles[a]) # <<>> /\ Chain(heap, handles[b]) # <<>>
     /\ Chain(heap, handles[a])[1] = Chain(heap, handles[b])[1]

\* C15: a == b returns true iff a and b start at the same node or are both
\* empty, and a != b returns the opposite, neither touching anything; right
\* after b is made a copy of a (by construction or assignment) b == a; a list
\* just made by prepend equals no list that existed before, whatever their
\* values.
C15_EqualityIsIdentity ==
  [][ /\ \A a, b \in Handles :
           Equals(a, b) =>
             /\ out'.truth <=> SameList(a, b)
             /\ heap' = heap /\ handles' = handles
      /\ \A a, b \in Handles :
           NotEquals(a, b) =>
             /\ out'.truth <=> ~SameList(a, b)
             /\ heap' = heap /\ handles' = handles
      /\ \A b, a \in Handles :
           (a # b /\ (CopyConstruct(b, a) \/ CopyAssign(b, a))) =>
             /\ equal(heap', handles'[b], handles'[a])
             /\ ~not_equal(heap', handles'[b], handles'[a])
      /\ \A b, a \in Handles : \A v \in Values :
           Prepend(b, a, v) =>
             \A c \in LiveHandles :
               /\ ~equal(heap', handles'[b], handles'[c])
               /\ not_equal(heap', handles'[b], handles'[c])
    ]_vars

\* C15 witness: a == b returned false for two non-empty lists of the same
\* values that were built by separate prepend calls.
C15_Witness ==
  /\ out.call = "==" /\ ~out.truth
  /\ \E a, b \in Handles :
       /\ handles[a] > 0 /\ handles[b] > 0 /\ handles[a] # handles[b]
       /\ ListValues(heap, handles[a]) = ListValues(heap, handles[b])
       /\ \A c \in LiveHandles \ {a, b} : handles[c] = NULL

\* C16: a loop over a list from begin() to end() ends, visits the values of
\* the list front to back, and changes no node, count or list, so that
\* every further loop over it visits the same values.
C16_IterationRepeats ==
  [][ \A a \in Handles : \A form \in IncrementForms :
        Iterate(a, form) =>
          /\ out'.truth
          /\ out'.values = ListValues(heap, handles[a])
          /\ heap' = heap /\ handles' = handles
    ]_vars

\* the references to node n: the lists whose node it is, and the allocated
\* nodes whose next it is
References(h, hs, n) ==
  Cardinality({b \in Handles : hs[b] = n}) +
  Cardinality({m \in LiveNodes(h) : h[m].next = n})

CountsAreReferences(h, hs) ==
  \A n \in LiveNodes(h) :
    h[n].refcount = References(h, hs, n) /\ h[n].refcount >= 1

\* the step allocates no node, and is of these effects on the counts
AllocatesNothing == LiveNodes(heap') \subseteq LiveNodes(heap)

AddsOneToHeadOf(a) ==
  handles[a] # NULL =>
    /\ heap'[handles[a]].live
    /\ heap'[handles[a]].refcount = heap[handles[a]].refcount + 1

LeavesCountsUnchanged ==
  \A n \in LiveNodes(heap) :
    heap'[n].live /\ heap'[n].refcount = heap[n].refcount

LeavesOtherCountsUnchanged(a) ==
  \A n \in LiveNodes(heap) \ {handles[a]} :
    heap'[n].live /\ heap'[n].refcount = heap[n].refcount

\* C20, as stated: after every list operation, each allocated node's count
\* is the number of references to it, and at least 1; every copy
\* (construction or assignment) adds exactly one to the head's count and
\* allocates nothing; every move (construction or assignment) leaves every
\* count unchanged and empties the source.
C20_CopyAddsOneMoveAddsNone ==
  [][ /\ CountsAreReferences(heap', handles')
      /\ \A b, a \in Handles :
           /\ (CopyConstruct(b, a) \/ CopyAssign(b, a)) =>
                AllocatesNothing /\ AddsOneToHeadOf(a)
           /\ (MoveConstruct(b, a) \/ MoveAssign(b, a)) =>
                LeavesCountsUnchanged /\ handles'[a] = NULL
    ]_vars

\* C20, amended: after every list operation, each allocated node's count is
\* the number of references to it, and at least 1, and only prepend
\* allocates.  A copy construction, or a copy assignment to an empty list
\* from another object, adds exactly one to the head's count and changes no
\* other; a move construction, or a move assignment to an empty list from
\* another object, changes no count and empties the source.  An assignment
\* to a non-empty list from another object first releases that list, so it
\* may lower or delete other nodes' counts and leave the head's count as it
\* was; still the assigned list gets the source's node, and a move empties
\* the source.  A self-assignment changes nothing: the source keeps its list.
C20_CountsAreReferences ==
  [][ /\ CountsAreReferences(heap', handles')
      /\ \A b, a \in Handles :
           /\ (CopyConstruct(b, a) \/ (CopyAssign(b, a) /\ a # b /\ handles[b] = NULL)) =>
                /\ AllocatesNothing /\ AddsOneToHeadOf(a) /\ LeavesOtherCountsUnchanged(a)
                /\ handles'[b] = handles[a] /\ handles'[a] = handles[a]
           /\ (MoveConstruct(b, a) \/ (MoveAssign(b, a) /\ a # b /\ handles[b] = NULL)) =>
                /\ heap' = heap
                /\ handles'[b] = handles[a] /\ handles'[a] = NULL
           /\ (CopyAssign(b, a) /\ a # b) =>
                AllocatesNothing /\ handles'[b] = handles[a] /\ handles'[a] = handles[a]
           /\ (MoveAssign(b, a) /\ a # b) =>
                AllocatesNothing /\ handles'[b] = handles[a] /\ handles'[a] = NULL
           /\ ((CopyAssign(b, a) \/ MoveAssign(b, a)) /\ a = b) =>
                heap' = heap /\ handles' = handles
      /\ ~AllocatesNothing =>
           \E b, a \in Handles : \E v \in Values : Prepend(b, a, v)
    ]_vars

\* two lists share a head node of count 2 that has a next node, and a third
\* list is empty: the state after a copy of a two-node list and a move
C20_Witness ==
  \E a, b, c \in Handles :
    /\ a # b /\ c \notin {a, b}
    /\ handles[a] > 0 /\ handles[a] = handles[b] /\ handles[c] = NULL
    /\ heap[handles[a]].refcount = 2 /\ heap[handles[a]].next > 0

(***************************************************************************)
(* main.cpp: x is a chain built on List(), y and z are chains built on x;  *)
(* then lists are cleared (x = List(); y = List();) and the scope ends.    *)
(* main builds 4 3 2 1, 7 6 5 and 9 8 and clears x then y; here every      *)
(* chain length up to MaxX, MaxY, MaxZ and every clearing order is run.    *)
(* The value prepended is the number of nodes built so far plus one, as in *)
(* main.                                                                   *)
(***************************************************************************)
Names == {"x", "y", "z"}

MainFrame == UNCHANGED <<handles, pc, state, incoming, idx, previous_layer,
                         current_layer, layer_count, result, lines_read, out>>

InitMain ==
  /\ heap = <<>>
  /\ handles = <<>>
  /\ named = [v \in Names |-> DEAD]
  /\ temps = <<>>
  /\ mainpc = "x"
  /\ out = NoResult
  /\ NoEngine

\* the longest chain the declaration of v may build
MaxChain(v) == IF v = "x" THEN MaxX ELSE IF v = "y" THEN MaxY ELSE MaxZ

\* the list the next prepend of the statement is called on
Receiver == IF temps # <<>> THEN temps[Len(temps)] ELSE named["x"]

\* destroy the temporaries s[1..k] in reverse order of construction
RECURSIVE destroy_temporaries(_, _, _)
destroy_temporaries(h, s, k) ==
  IF k = 0 THEN h ELSE destroy_temporaries(cleanup(h, s[k]), s, k - 1)

\* List() at the start of line 14
MainList ==
  /\ mainpc = "x" /\ temps = <<>>
  /\ temps' = <<NULL>>
  /\ UNCHANGED <<heap, named, mainpc>>
  /\ MainFrame

\* one .prepend(k) of lines 14-16; its result is a temporary
MainPrepend ==
  /\ mainpc \in Names
  /\ mainpc = "x" => temps # <<>>
  /\ Len(temps) < MaxChain(mainpc) + (IF mainpc = "x" THEN 1 ELSE 0)
  /\ heap' = prepend(heap, Receiver, Len(heap) + 1).heap
  /\ temps' = Append(temps, prepend(heap, Receiver, Len(heap) + 1).node)
  /\ UNCHANGED <<named, mainpc>>
  /\ MainFrame

\* the end of a declaration: the last result is the declared list itself,
\* the other temporaries are destroyed
MainDeclare ==
  /\ mainpc \in Names /\ temps # <<>>
  /\ named' = [named EXCEPT ![mainpc] = temps[Len(temps)]]
  /\ heap' = destroy_temporaries(heap, temps, Len(temps) - 1)
  /\ temps' = <<>>
  /\ mainpc' = IF mainpc = "x" THEN "y" ELSE IF mainpc = "y" THEN "z" ELSE "clear"
  /\ MainFrame

\* v = List();  (lines 26-27: move assignment from an empty temporary)
MainClear(v) ==
  /\ mainpc = "clear" /\ named[v] # NULL
  /\ heap' = move_assign(heap, named[v], NULL).heap
  /\ named' = [named EXCEPT ![v] = move_assign(heap, named[v], NULL).node]
  /\ UNCHANGED <<temps, mainpc>>
  /\ MainFrame

\* the list whose destructor runs next at the end of the scope
ExitVar == IF mainpc = "clear" THEN "z" ELSE IF mainpc = "exit_y" THEN "y" ELSE "x"

\* line 28: the destructors of z, y and x, in that order
MainExit ==
  /\ mainpc \in {"clear", "exit_y", "exit_x"}
  /\ heap' = cleanup(heap, named[ExitVar])
  /\ named' = [named EXCEPT ![ExitVar] = DEAD]
  /\ mainpc' = IF mainpc = "clear" THEN "exit_y" ELSE IF mainpc = "exit_y" THEN "exit_x" ELSE "done"
  /\ UNCHANGED temps
  /\ MainFrame

NextMain ==
  \/ MainList
  \/ MainPrepend
  \/ MainDeclare
  \/ \E v \in Names : MainClear(v)
  \/ MainExit

SpecMain == InitMain /\ [][NextMain]_vars

(***************************************************************************)
(* Properties of main.cpp.                                                 *)
(***************************************************************************)
\* the nodes reached through next links from the lists in roots
Reach(h, roots) == UNION {SeqRange(Chain(h, r)) : r \in {q \in roots : q > 0}}

\* the `node` members of the lists alive in main
MainRoots == {named[v] : v \in Names} \cup SeqRange(temps)

\* the index in chain ch of the first node with another owner (Len(ch) + 1: none)
StopIndex(h, ch) ==
  SetMin({i \in 1..Len(ch) : h[ch[i]].refcount > 1} \cup {Len(ch) + 1})

\* releasing the list at node: the nodes before the first shared one are
\* deleted, that one loses one count and stays, everything else is untouched
WalkEffect(h, h2, node) ==
  LET ch == Chain(h, node)
      k == StopIndex(h, ch)
  IN /\ Len(h2) = Len(h)
     /\ \A i \in 1..(k - 1) : ~h2[ch[i]].live
     /\ k <= Len(ch) => /\ h2[ch[k]] = [h[ch[k]] EXCEPT !.refcount = @ - 1]
                        /\ h2[ch[k]].refcount >= 1
     /\ \A m \in 1..Len(h) : (\A i \in 1..k : i > Len(ch) \/ ch[i] # m) => h2[m] = h[m]

\* the values of the nodes a step deletes
DeletedValues == {heap[n].value[1] : n \in Deleted}

\* main's own lists: x = 4 3 2 1 (or already cleared), y = 7 6 5 on x, z = 9 8 on x
IsMainExample(xs, ys) ==
  /\ named["x"] # DEAD /\ named["y"] # DEAD /\ named["z"] # DEAD
  /\ ListValues(heap, named["x"]) = xs
  /\ ListValues(heap, named["y"]) = ys
  /\ ListValues(heap, named["z"]) = <<9, 8, 4, 3, 2, 1>>

\* C5: the allocated nodes are always exactly those some live list reaches;
\* a step deletes exactly the nodes that no live list reaches after it; the
\* release of one list deletes the nodes in front of the first shared node
\* of its chain, takes one count from that node and touches nothing else;
\* and in main itself x = List() deletes nothing, y = List() then deletes
\* 7, 6, 5, and the destructor of z then deletes 9, 8, 4, 3, 2, 1.
C5_DeletedWhenUnreachable ==
  [][ /\ LiveNodes(heap) = Reach(heap, MainRoots)
      /\ LiveNodes(heap') = Reach(heap', MainRoots')
      /\ Deleted = Reach(heap, MainRoots) \ Reach(heap', MainRoots')
      /\ \A v \in Names : MainClear(v) => WalkEffect(heap, heap', named[v])
      /\ MainExit => WalkEffect(heap, heap', named[ExitVar])
      /\ (IsMainExample(<<4, 3, 2, 1>>, <<7, 6, 5, 4, 3, 2, 1>>) /\ MainClear("x"))
           => DeletedValues = {}
      /\ (IsMainExample(<<>>, <<7, 6, 5, 4, 3, 2, 1>>) /\ MainClear("y"))
           => DeletedValues = {7, 6, 5}
      /\ (IsMainExample(<<>>, <<>>) /\ MainExit /\ ExitVar = "z")
           => DeletedValues = {9, 8, 4, 3, 2, 1}
    ]_vars

\* C5 witness: main's run just before the scope ends: x and y are cleared,
\* 7, 6 and 5 are deleted, z = 9 8 4 3 2 1 is the only list left.
C5_Witness ==
  /\ mainpc = "clear" /\ IsMainExample(<<>>, <<>>)
  /\ Len(heap) = 9 /\ Cardinality(LiveNodes(heap)) = 6

(***************************************************************************)
(* shortestpath.cpp: Edge, VertexState, the layer source and               *)
(* cheapest_paths.  A vector of lists is a sequence of `node` members; the *)
(* element for vertex v is at index v + 1.                                 *)
(***************************************************************************)
Edge(f, t, w) == [from |-> f, to |-> t, weight |-> w]

VertexState(w, v) == [least_total_weight_to_here |-> w, vertex |-> v]

EdgeSet == {Edge(f, t, w) : f \in Vertices, t \in Vertices, w \in Weights}

\* the layer of the seeding example: one edge from vertex 3 to vertex 0, weight 7
SeedingExample == <<Edge(3, 0, 7)>>

\* the edge lists of at most n edges
LayersUpTo(n) ==
  UNION {[1..k -> EdgeSet] : k \in 0..n} \cup (IF n >= 1 THEN {SeedingExample} ELSE {})

\* A line of input: its complete `from to weight` triples, and the number of
\* tokens left over after them.  EndOfInput stands for std::getline failing.
EndOfInput == [edges |-> <<>>, trailing |-> -1]

LinesUpTo(n) == {[edges |-> l, trailing |-> t] : l \in LayersUpTo(n), t \in Trailing}

\* the edges read so far
RECURSIVE EdgesIn(_)
EdgesIn(lines) ==
  IF lines = <<>> THEN 0 ELSE Len(Head(lines).edges) + EdgesIn(Tail(lines))

\* read_layer: false at the end of input and on a line that ends inside a
\* triple; true, with the triples in destination, otherwise.
read_layer(line) ==
  IF line.trailing = -1 THEN [ok |-> FALSE, destination |-> <<>>]
  ELSE IF line.trailing = 0 THEN [ok |-> TRUE, destination |-> line.edges]
  ELSE [ok |-> FALSE, destination |-> line.edges]

\* the destructors of the elements of a vector, first to last
RECURSIVE destroy_all(_, _)
destroy_all(h, s) ==
  IF s = <<>> THEN h ELSE destroy_all(cleanup(h, Head(s)), Tail(s))

\* n default-constructed (empty) lists
RECURSIVE Nils(_)
Nils(n) == IF n <= 0 THEN <<>> ELSE Append(Nils(n - 1), NULL)

\* std::vector<LispyList>::resize(n)
resize(h, vec, n) ==
  IF n <= Len(vec)
  THEN [heap |-> destroy_all(h, SubSeq(vec, n + 1, Len(vec))), vec |-> SubSeq(vec, 1, n)]
  ELSE [heap |-> h, vec |-> vec \o Nils(n - Len(vec))]

SetMax(S) == CHOOSE x \in S : \A y \in S : y <= x

\* lines 41-48: the largest vertex named on either side, -1 for no edge
max_previous_vertex(edges) == SetMax({edges[i].from : i \in 1..Len(edges)} \cup {-1})

max_current_vertex(edges) == SetMax({edges[i].to : i \in 1..Len(edges)} \cup {-1})

\* variant of size_layers: current_layer is resized without being cleared
size_layers_without_clear(st, edges) ==
  LET p == resize(st.heap, st.previous_layer, max_previous_vertex(edges) + 1)
      c == resize(p.heap, st.current_layer, max_current_vertex(edges) + 1)
  IN [heap |-> c.heap, previous_layer |-> p.vec, current_layer |-> c.vec]

\* lines 49-51: previous_layer.resize, current_layer.clear, current_layer.resize
size_layers(st, edges) ==
  LET p == resize(st.heap, st.previous_layer, max_previous_vertex(edges) + 1)
  IN [heap |-> destroy_all(p.heap, st.current_layer),
      previous_layer |-> p.vec,
      current_layer |-> Nils(max_current_vertex(edges) + 1)]

\* variant of seed_previous: no path is started
seed_previous_skipped(st, from) == st

\* variant of seed_previous: the seed is named by its index in the vector plus one
seed_previous_misnamed(st, from) ==
  IF st.previous_layer[from + 1] = NULL
  THEN LET made == prepend(st.heap, NULL, VertexState(0, from + 1))
           asg == move_assign(made.heap, st.previous_layer[from + 1], made.node)
       IN [st EXCEPT !.heap = asg.heap, !.previous_layer[from + 1] = asg.node]
  ELSE st

\* lines 59-65: a previous vertex with no path starts one of weight zero
seed_previous(st, from) ==
  IF st.previous_layer[from + 1] = NULL
  THEN LET made == prepend(st.heap, NULL, VertexState(0, from))
           asg == move_assign(made.heap, st.previous_layer[from + 1], made.node)
       IN [st EXCEPT !.heap = asg.heap, !.previous_layer[from + 1] = asg.node]
  ELSE st

\* lines 66-67
proposed_total(st, edge) ==
  head(st.heap, st.previous_layer[edge.from + 1]).least_total_weight_to_here + edge.weight

\* variant of improves: an equal total replaces the path too
improves_on_tie(h, slot, total) ==
  slot = NULL \/ head(h, slot).least_total_weight_to_here >= total

\* variant of improves: every edge replaces the path
improves_always(h, slot, total) == TRUE

\* line 68: the slot is empty or holds a strictly heavier path
improves(h, slot, total) ==
  slot = NULL \/ head(h, slot).least_total_weight_to_here > total

\* variant of relax_edge: the new node is prepended to nil, not to the path
\* of the previous vertex
relax_edge_unlinked(st, edge) ==
  LET s1 == seed_previous(st, edge.from)
      total == proposed_total(s1, edge)
  IN IF improves(s1.heap, s1.current_layer[edge.to + 1], total)
     THEN LET made == prepend(s1.heap, NULL, VertexState(total, edge.to))
              asg == move_assign(made.heap, s1.current_layer[edge.to + 1], made.node)
          IN [s1 EXCEPT !.heap = asg.heap, !.current_layer[edge.to + 1] = asg.node]
     ELSE s1

\* lines 58-74: one edge of the layer
relax_edge(st, edge) ==
  LET s1 == seed_previous(st, edge.from)
      total == proposed_total(s1, edge)
  IN IF improves(s1.heap, s1.current_layer[edge.to + 1], total)
     THEN LET made == prepend(s1.heap, s1.previous_layer[edge.from + 1],
                              VertexState(total, edge.to))
              asg == move_assign(made.heap, s1.current_layer[edge.to + 1], made.node)
          IN [s1 EXCEPT !.heap = asg.heap, !.current_layer[edge.to + 1] = asg.node]
     ELSE s1

\* lines 84-97: order by weight, empty lists last
ByTotalWeight(h, left, right) ==
  IF empty(left) THEN FALSE
  ELSE IF empty(right) THEN TRUE
  ELSE head(h, left).least_total_weight_to_here < head(h, right).least_total_weight_to_here

Bijections(n) == {p \in [1..n -> 1..n] : \A i, j \in 1..n : i # j => p[i] # p[j]}

\* line 99: std::sort is not stable; every order the comparator allows
sorted_outcomes(h, vec) ==
  {t \in {[i \in 1..Len(vec) |-> vec[p[i]]] : p \in Bijections(Len(vec))} :
     \A i, j \in 1..Len(vec) : i < j => ~ByTotalWeight(h, t[j], t[i])}

\* variant of end_least: only an empty list ends the kept range
end_least_first_empty(h, vec) ==
  SetMin({i \in 1..Len(vec) : empty(vec[i])} \cup {Len(vec) + 1})

\* lines 102-108: the first element that is empty or not of the least weight
end_least(h, vec) ==
  LET least_total_weight == head(h, vec[1]).least_total_weight_to_here
  IN SetMin({i \in 1..Len(vec) :
               empty(vec[i]) \/ head(h, vec[i]).least_total_weight_to_here # least_total_weight}
            \cup {Len(vec) + 1})

\* variant of assertions_hold: a build with NDEBUG
assertions_compiled_out(vec) == TRUE

\* lines 100-101: assert(!previous_layer.empty()); assert(!previous_layer[0].empty())
assertions_hold(vec) == vec # <<>> /\ ~empty(vec[1])

EngineFrame == UNCHANGED <<handles, named, temps, mainpc, out>>

Init ==
  /\ heap = <<>>
  /\ handles = <<>>
  /\ NoMain
  /\ pc = "start" /\ state = FALSE /\ incoming = <<>> /\ idx = 0
  /\ previous_layer = <<>> /\ current_layer = <<>> /\ layer_count = 1
  /\ result = <<>> /\ lines_read = <<>>
  /\ out = NoResult

\* the lines the input may hold next
NextLines ==
  {EndOfInput} \cup
  (IF Len(lines_read) < MaxLayers
   THEN LinesUpTo(MaxInputEdges - EdgesIn(lines_read)) ELSE {})

\* LayerIterator::operator++ on the line the input holds next
Increment(line) ==
  /\ state' = read_layer(line).ok
  /\ incoming' = IF read_layer(line).ok THEN read_layer(line).destination ELSE <<>>
  /\ lines_read' = IF line = EndOfInput THEN lines_read ELSE Append(lines_read, line)

\* main, line 197: LayerIterator{std::cin} gets the initial layer, if any;
\* the input holds one of `lines` next
ConstructFrom(lines) ==
  /\ pc = "start"
  /\ \E line \in lines : Increment(line)
  /\ pc' = "loop"
  /\ UNCHANGED <<heap, idx, previous_layer, current_layer, layer_count, result>>
  /\ EngineFrame

Construct == ConstructFrom(NextLines)

\* lines 37-53: layer != layers_end; the two vectors get the layer's sizes
BeginLayer ==
  /\ pc = "loop" /\ state
  /\ LET st == size_layers([heap |-> heap, previous_layer |-> previous_layer,
                            current_layer |-> current_layer], incoming)
     IN /\ heap' = st.heap
        /\ previous_layer' = st.previous_layer
        /\ current_layer' = st.current_layer
  /\ idx' = 1
  /\ pc' = "relax"
  /\ UNCHANGED <<state, incoming, layer_count, result, lines_read>>
  /\ EngineFrame

\* lines 57-75: one turn of the loop over the layer's edges
Relax ==
  /\ pc = "relax" /\ idx <= Len(incoming)
  /\ LET st == relax_edge([heap |-> heap, previous_layer |-> previous_layer,
                           current_layer |-> current_layer], incoming[idx])
     IN /\ heap' = st.heap
        /\ previous_layer' = st.previous_layer
        /\ current_layer' = st.current_layer
  /\ idx' = idx + 1
  /\ UNCHANGED <<pc, state, incoming, layer_count, result, lines_read>>
  /\ EngineFrame

\* variant of EndLayerFrom: the two vectors are not swapped
EndLayerFrom_without_swap(lines) ==
  /\ pc = "relax" /\ idx > Len(incoming)
  /\ \E line \in lines : Increment(line)
  /\ layer_count' = layer_count + 1
  /\ idx' = 0
  /\ pc' = "loop"
  /\ UNCHANGED <<heap, result, previous_layer, current_layer>>
  /\ EngineFrame

\* lines 77-78 and 37: swap, ++layer, ++layer_count; the input holds one of
\* `lines` next
EndLayerFrom(lines) ==
  /\ pc = "relax" /\ idx > Len(incoming)
  /\ previous_layer' = current_layer
  /\ current_layer' = previous_layer
  /\ \E line \in lines : Increment(line)
  /\ layer_count' = layer_count + 1
  /\ idx' = 0
  /\ pc' = "loop"
  /\ UNCHANGED <<heap, result>>
  /\ EngineFrame

EndLayer == EndLayerFrom(NextLines)

\* lines 99-110: sort, the two assertions, the filter, the return (which
\* destroys the erased elements and the local current_layer)
Finalize ==
  /\ pc = "loop" /\ ~state
  /\ \E sorted \in sorted_outcomes(heap, previous_layer) :
       IF ~assertions_hold(sorted)
       THEN /\ pc' = "aborted"
            /\ previous_layer' = sorted
            /\ UNCHANGED <<heap, current_layer, result>>
       ELSE LET e == end_least(heap, sorted)
            IN /\ pc' = "done"
               /\ result' = SubSeq(sorted, 1, e - 1)
               /\ heap' = destroy_all(destroy_all(heap, SubSeq(sorted, e, Len(sorted))),
                                      current_layer)
               /\ previous_layer' = <<>>
               /\ current_layer' = <<>>
  /\ UNCHANGED <<state, incoming, idx, layer_count, lines_read>>
  /\ EngineFrame

Next ==
  \/ Construct
  \/ BeginLayer
  \/ Relax
  \/ EndLayer
  \/ Finalize

Spec == Init /\ [][Next]_vars

\* where the execution of cheapest_paths is: every step moves it
position == <<pc, idx>>

\* the lines and the edges of an input of unit weights
MaxFairLayers == 2
MaxFairEdges == 2

\* the edges of weight 1
UnitEdges == {Edge(f, t, 1) : f \in Vertices, t \in Vertices}

\* the lines an input whose edges all have the weight 1 may hold next
UnitLines ==
  {EndOfInput} \cup
  (IF Len(lines_read) < MaxFairLayers
   THEN {[edges |-> l, trailing |-> t] :
           l \in UNION {[1..k -> UnitEdges] :
                          k \in 0..(MaxFairEdges - EdgesIn(lines_read))},
           t \in Trailing}
   ELSE {})

\* cheapest_paths on the inputs of unit weights
NextFair ==
  \/ ConstructFrom(UnitLines)
  \/ BeginLayer
  \/ Relax
  \/ EndLayerFrom(UnitLines)
  \/ Finalize

\* cheapest_paths is sequential code: while it has a next step, it takes it
FairSpec == Init /\ [][NextFair]_vars /\ WF_position(NextFair)

(***************************************************************************)
(* Properties of cheapest_paths.                                           *)
(***************************************************************************)
\* the layers the source delivered: every line read but a last, broken one
Delivered ==
  LET n == IF lines_read # <<>> /\ lines_read[Len(lines_read)].trailing > 0
           THEN Len(lines_read) - 1 ELSE Len(lines_read)
  IN [i \in 1..n |-> lines_read[i].edges]

LastLayerHasEdge == Delivered # <<>> /\ Delivered[Len(Delivered)] # <<>>

\* the total weight at the head of a non-empty path
Weight(h, node) == head(h, node).least_total_weight_to_here

NonEmptySlots(vec) == {i \in 1..Len(vec) : vec[i] # NULL}

\* the slots of vec that hold a path of the least weight in vec
LeastSlots(h, vec) ==
  {i \in NonEmptySlots(vec) :
     \A j \in NonEmptySlots(vec) : Weight(h, vec[i]) <= Weight(h, vec[j])}

\* C1: when the input delivered at least one layer and the last one has an
\* edge, cheapest_paths returns, and what it returns is exactly the last
\* layer's paths of least weight: each of them once, nothing empty, nothing
\* heavier, every returned path intact.
C1_ReturnsAllLeastPaths ==
  [][ (Finalize /\ LastLayerHasEdge) =>
        /\ pc' = "done"
        /\ SeqRange(result') = {previous_layer[i] : i \in LeastSlots(heap, previous_layer)}
        /\ Len(result') = Cardinality(LeastSlots(heap, previous_layer))
        /\ \A k \in 1..Len(result') :
             /\ result'[k] # NULL
             /\ heap'[result'[k]].live
             /\ ListValues(heap', result'[k]) = ListValues(heap, result'[k])
    ]_vars

\* C1 witness: two layers were read and two final vertices tie for the least weight.
C1_Witness == pc = "done" /\ Len(Delivered) = 2 /\ Len(result) = 2

\* the weight a previous vertex contributes: that of its path, 0 without one
PreviousWeight(f) ==
  IF previous_layer[f + 1] = NULL THEN 0 ELSE Weight(heap, previous_layer[f + 1])

\* the edges of the layer into vertex v among the first k
Processed(v, k) == {i \in 1..k : incoming[i].to = v}

\* the total edge i of the layer proposes
Candidate(i) == PreviousWeight(incoming[i].from) + incoming[i].weight

\* C2: while a layer is relaxed, the slot of each current vertex v is empty
\* iff no edge into v was processed, and otherwise its weight is the least
\* of (weight of the path at from, or 0) + weight over the processed edges into v.
C2_SlotIsMinimumSoFar ==
  pc = "relax" =>
    \A v \in 0..(Len(current_layer) - 1) :
      /\ current_layer[v + 1] = NULL <=> Processed(v, idx - 1) = {}
      /\ current_layer[v + 1] # NULL =>
           /\ heap[current_layer[v + 1]].live
           /\ Weight(heap, current_layer[v + 1])
                = SetMin({Candidate(i) : i \in Processed(v, idx - 1)})

\* C2 witness: in a second layer, two edges into one vertex were processed
\* and the later one was the lighter.
C2_Witness ==
  /\ pc = "relax" /\ layer_count = 2 /\ idx = 3
  /\ incoming[1].to = incoming[2].to
  /\ Candidate(2) < Candidate(1)
  /\ Len(previous_layer) = 2

\* C6: relaxing an edge whose from has no path makes previous_layer[from]
\* the one-node path {from, 0} and proposes exactly the edge's weight; and
\* the input whose only layer is the one edge (3, 0, 7) yields one path,
\* 0 (weight 7) then 3 (weight 0).
C6_SeedsPreviousWithZero ==
  [][ /\ (Relax /\ previous_layer[incoming[idx].from + 1] = NULL) =>
           LET e == incoming[idx]
               seeded == previous_layer'[e.from + 1]
               slot == current_layer[e.to + 1]
           IN /\ seeded # NULL
              /\ heap'[seeded].live
              /\ ListValues(heap', seeded) = <<VertexState(0, e.from)>>
              /\ (slot = NULL \/ Weight(heap, slot) > e.weight) =>
                   ListValues(heap', current_layer'[e.to + 1])
                     = <<VertexState(e.weight, e.to), VertexState(0, e.from)>>
              /\ (slot # NULL /\ Weight(heap, slot) <= e.weight) =>
                   current_layer'[e.to + 1] = slot
      /\ (Finalize /\ Delivered = <<SeedingExample>>) =>
           /\ pc' = "done"
           /\ Len(result') = 1
           /\ ListValues(heap', result'[1]) = <<VertexState(7, 0), VertexState(0, 3)>>
    ]_vars

\* C6 witness: the seeding example has run to its result.
C6_Witness ==
  /\ pc = "done" /\ Delivered = <<SeedingExample>>
  /\ Len(result) = 1 /\ Weight(heap, result[1]) = 7

\* the first processed edge into v that proposes the least total
FirstBest(v, k) ==
  SetMin({i \in Processed(v, k) : \A j \in Processed(v, k) : Candidate(i) <= Candidate(j)})

\* C7: relaxing (from, to, weight) leaves current_layer[to] the same node,
\* untouched, when it holds a path no heavier than the proposed total, and
\* otherwise makes it a new node {to, total} whose tail is previous_layer[from];
\* no other slot changes; so each slot holds the path of the first edge
\* that proposed the least total.
C7_FirstOfEqualsIsKept ==
  [][ Relax =>
        LET e == incoming[idx]
            slot == current_layer[e.to + 1]
            total == PreviousWeight(e.from) + e.weight
            after == current_layer'[e.to + 1]
        IN /\ (slot # NULL /\ Weight(heap, slot) <= total) =>
                /\ after = slot
                /\ heap'[slot] = heap[slot]
           /\ (slot = NULL \/ Weight(heap, slot) > total) =>
                /\ after # NULL /\ after # slot
                /\ after \notin LiveNodes(heap)
                /\ heap'[after].live
                /\ heap'[after].value = <<VertexState(total, e.to)>>
                /\ tail(heap', after).node = previous_layer'[e.from + 1]
           /\ \A v \in 1..Len(current_layer) :
                v # e.to + 1 => current_layer'[v] = current_layer[v]
           /\ \A v \in 0..(Len(current_layer) - 1) :
                current_layer'[v + 1] # NULL =>
                  heap'[current_layer'[v + 1]].next
                    = previous_layer'[incoming[FirstBest(v, idx)].from + 1]
    ]_vars

\* C7 witness: two edges from different vertices proposed the same total
\* for one vertex, and the slot holds the path of the first.
C7_Witness ==
  /\ pc = "relax" /\ idx = 3
  /\ incoming[1].to = incoming[2].to
  /\ incoming[1].from # incoming[2].from
  /\ Candidate(1) = Candidate(2)
  /\ heap[current_layer[incoming[1].to + 1]].next = previous_layer[incoming[1].from + 1]

\* cheapest_paths as a function of the layers: lines 34-79 run on each
\* layer in turn, from empty vectors and an empty store
EmptyRun == [heap |-> <<>>, previous_layer |-> <<>>, current_layer |-> <<>>]

\* lines 57-75: the loop over the edges from the i-th on
RECURSIVE relax_edges(_, _, _)
relax_edges(st, edges, i) ==
  IF i > Len(edges) THEN st ELSE relax_edges(relax_edge(st, edges[i]), edges, i + 1)

\* lines 41-78: one layer, ending with the swap
run_layer(st, edges) ==
  LET r == relax_edges(size_layers(st, edges), edges, 1)
  IN [r EXCEPT !.previous_layer = r.current_layer, !.current_layer = r.previous_layer]

\* lines 37-79: the loop over the layers
RECURSIVE run_layers(_, _)
run_layers(st, layers) ==
  IF layers = <<>> THEN st ELSE run_layers(run_layer(st, Head(layers)), Tail(layers))

\* lines 99-110 on the final vectors: whether an assertion stops the run,
\* and else the weight, the final vertices and the paths returned
Outcome(st) ==
  LET sorted == CHOOSE t \in sorted_outcomes(st.heap, st.previous_layer) : TRUE
      kept == 1..(end_least(st.heap, sorted) - 1)
  IN IF ~assertions_hold(sorted)
     THEN [aborted |-> TRUE, weight |-> 0, vertices |-> {}, paths |-> {}]
     ELSE [aborted |-> FALSE,
           weight |-> Weight(st.heap, sorted[1]),
           vertices |-> {head(st.heap, sorted[k]).vertex : k \in kept},
           paths |-> {ListValues(st.heap, sorted[k]) : k \in kept}]

\* what the run of the engine came to
ActualOutcome ==
  IF pc = "aborted"
  THEN [aborted |-> TRUE, weight |-> 0, vertices |-> {}, paths |-> {}]
  ELSE [aborted |-> FALSE,
        weight |-> Weight(heap, result[1]),
        vertices |-> {head(heap, result[k]).vertex : k \in 1..Len(result)},
        paths |-> {ListValues(heap, result[k]) : k \in 1..Len(result)}]

\* the orders of the elements of s
PermsOf(s) == {[i \in 1..Len(s) |-> s[p[i]]] : p \in Bijections(Len(s))}

\* the layer sequences that differ from layers only in the order of the
\* edges inside each layer
RECURSIVE Rearrangements(_)
Rearrangements(layers) ==
  IF layers = <<>> THEN {<<>>}
  ELSE {<<h>> \o t : h \in PermsOf(Head(layers)), t \in Rearrangements(Tail(layers))}

\* C8: whatever the order of the edges inside each layer, cheapest_paths
\* stops at the assertion or not alike, and returns the same least total
\* weight and the same set of final vertices.
C8_EdgeOrderDoesNotChangeOptimum ==
  pc \in {"done", "aborted"} =>
    \A layers \in Rearrangements(Delivered) :
      LET other == Outcome(run_layers(EmptyRun, layers))
      IN /\ other.aborted = ActualOutcome.aborted
         /\ other.weight = ActualOutcome.weight
         /\ other.vertices = ActualOutcome.vertices

\* C8 witness: a run returned, and another order of its edges returns other
\* paths to the same final vertices.
C8_Witness ==
  /\ pc = "done"
  /\ \E layers \in Rearrangements(Delivered) :
       Outcome(run_layers(EmptyRun, layers)).paths # ActualOutcome.paths

\* C9: within a layer a slot that holds a path never becomes empty again, its
\* weight never grows, and it changes only to a strictly lighter path.
C9_WeightNeverIncreases ==
  [][ Relax =>
        /\ Len(current_layer') = Len(current_layer)
        /\ \A v \in 1..Len(current_layer) :
             current_layer[v] # NULL =>
               /\ current_layer'[v] # NULL
               /\ Weight(heap', current_layer'[v]) <= Weight(heap, current_layer[v])
               /\ ( \/ current_layer'[v] # current_layer[v]
                    \/ ListValues(heap', current_layer'[v]) # ListValues(heap, current_layer[v]) )
                  => Weight(heap', current_layer'[v]) < Weight(heap, current_layer[v])
    ]_vars

\* C9 witness: in a first layer, a later edge into a vertex replaced its
\* path by a strictly lighter one.
C9_Witness ==
  /\ pc = "relax" /\ layer_count = 1 /\ idx = 3
  /\ incoming[1].to = incoming[2].to
  /\ Weight(heap, current_layer[incoming[1].to + 1]) < Candidate(1)

\* C10: cheapest_paths returns only when a layer was delivered and the last
\* one has an edge, and then returns at least one path; on no layer at all,
\* or a last layer without edges, it stops at an assertion and nothing is
\* returned.
C10_NoLayerNoResult ==
  /\ pc = "done" => LastLayerHasEdge /\ result # <<>>
  /\ pc = "aborted" => result = <<>>
  /\ (pc \in {"done", "aborted"} /\ ~LastLayerHasEdge) => pc = "aborted"

\* C10 witness: the run stopped at the assertion after a layer with edges
\* was followed by a last layer without any.
C10_Witness ==
  /\ pc = "aborted" /\ Len(Delivered) = 2
  /\ Delivered[1] # <<>> /\ Delivered[2] = <<>>

\* a line without tokens: the first read of `from` fails, read_layer returns
\* true with no edge
EmptyLine == [edges |-> <<>>, trailing |-> 0]

\* the edge lists of the lines read before the i-th
LayersBefore(i) == [j \in 1..(i - 1) |-> lines_read[j].edges]

\* C12: once a line without tokens is read the iterator equals the end
\* iterator, that line is the last one read, and the run ends as it would
\* on the lines before it alone.
C12_EmptyLineIsExhaustion ==
  \A i \in 1..Len(lines_read) :
    lines_read[i] = EmptyLine =>
      /\ ~state
      /\ i = Len(lines_read)
      /\ pc \in {"done", "aborted"} =>
           ActualOutcome = Outcome(run_layers(EmptyRun, LayersBefore(i)))

\* the last line read ends inside a triple
BrokenLineRead == lines_read # <<>> /\ lines_read[Len(lines_read)].trailing > 0

\* C13: after a line that ends inside a triple the run returns nothing, and
\* it does not end as the run on the lines before that line alone ends.
C13_BrokenLineIsHardFailure ==
  BrokenLineRead =>
    /\ pc # "done"
    /\ pc = "aborted" =>
         ActualOutcome # Outcome(run_layers(EmptyRun, LayersBefore(Len(lines_read))))

\* the paths in a vector of lists, as value sequences
PathsOf(h, vec) == [v \in 1..Len(vec) |-> ListValues(h, vec[v])]

\* the vectors after lines 41-78 ran once on each of the first k layers
After(k) == run_layers(EmptyRun, LayersBefore(k + 1))

Ended == pc \in {"done", "aborted"}

\* C17: the run ends; whenever the loop condition is evaluated for the k-th
\* time, k lines have been requested in all and previous_layer is what
\* running the first k - 1 delivered layers once each, in order, with the
\* swap after each, leaves; the layer being relaxed is the last line read;
\* and the final sort and filter run only when the source is exhausted and
\* every delivered layer was processed, on the result of all of them.
C17_RunsToExhaustion ==
  /\ [] /\ (pc = "loop" /\ state) =>
             /\ Len(lines_read) = layer_count
             /\ incoming = lines_read[layer_count].edges
             /\ PathsOf(heap, previous_layer)
                  = PathsOf(After(layer_count - 1).heap, After(layer_count - 1).previous_layer)
        /\ pc = "relax" =>
             /\ state /\ Len(lines_read) = layer_count
             /\ incoming = lines_read[layer_count].edges
        /\ (pc = "loop" /\ ~state) =>
             /\ Len(Delivered) = layer_count - 1
             /\ PathsOf(heap, previous_layer)
                  = PathsOf(After(layer_count - 1).heap, After(layer_count - 1).previous_layer)
        /\ Ended =>
             /\ ~state
             /\ Len(Delivered) = layer_count - 1
             /\ ActualOutcome = Outcome(After(Len(Delivered)))
  /\ <>Ended

\* C17 witness: a run over two delivered layers with edges has ended with a result.
C17_Witness ==
  /\ pc = "done" /\ Len(Delivered) = 2 /\ layer_count = 3
  /\ Delivered[1] # <<>> /\ Delivered[2] # <<>>

\* n is one more than the largest of the vertices vs, which are not none
OneMoreThanLargest(n, vs) == (n - 1) \in vs /\ \A v \in vs : v <= n - 1

\* the vertices the edges of the layer in hand leave from, and lead to
FromVertices == {incoming[i].from : i \in 1..Len(incoming)}

ToVertices == {incoming[i].to : i \in 1..Len(incoming)}

\* C18: while a layer with at least one edge is processed, previous_layer
\* has max(from) + 1 slots and current_layer max(to) + 1 slots, so every
\* edge indexes inside both; and once the layer's edges are all relaxed,
\* slot v of current_layer is non-empty exactly when some edge leads to v.
C18_SizesAndReachedSlots ==
  (pc = "relax" /\ incoming # <<>>) =>
    /\ OneMoreThanLargest(Len(previous_layer), FromVertices)
    /\ OneMoreThanLargest(Len(current_layer), ToVertices)
    /\ \A i \in 1..Len(incoming) :
         /\ incoming[i].from + 1 \in DOMAIN previous_layer
         /\ incoming[i].to + 1 \in DOMAIN current_layer
    /\ (idx > Len(incoming)) =>
         /\ \A v \in 0..(Len(current_layer) - 1) :
              (current_layer[v + 1] # NULL) <=> (v \in ToVertices)
         /\ current_layer[Len(current_layer)] # NULL

\* the second layer is finished; it has an edge to vertex 1 and none to
\* vertex 0, which was a vertex of the layer before
C18_Witness ==
  /\ pc = "relax" /\ idx > Len(incoming) /\ layer_count = 2
  /\ ToVertices = {1}
  /\ Len(current_layer) = 2
  /\ current_layer[1] = NULL /\ current_layer[2] # NULL
  /\ Len(lines_read[1].edges) > 0

\* The lists head() is invoked on, site by site.
\* lines 66 and 68: previous_layer[from].head(); current_layer[to].head()
\* unless current_layer[to] == nil
relax_head_calls(st, edge) ==
  LET s1 == seed_previous(st, edge.from)
      slot == s1.current_layer[edge.to + 1]
  IN {s1.previous_layer[edge.from + 1]} \cup (IF slot = NULL THEN {} ELSE {slot})

\* lines 89-95: left.head() and right.head(), after both empty() tests
compare_head_calls(left, right) ==
  IF empty(left) THEN {} ELSE IF empty(right) THEN {} ELSE {left, right}

\* line 99: std::sort may compare any two elements
sort_head_calls(vec) ==
  UNION {compare_head_calls(vec[i], vec[j]) : i, j \in 1..Len(vec)}

\* lines 102-108: previous_layer[0].head(); list.head() unless list.empty()
filter_head_calls(sorted) ==
  {sorted[1]} \cup {sorted[i] : i \in {j \in 1..Len(sorted) : ~empty(sorted[j])}}

\* main, line 201: list.head() of each returned path
main_head_calls(paths) == {paths[i] : i \in 1..Len(paths)}

\* C19: head() is never invoked on an empty list: not on the two slots of
\* an edge being relaxed (in any run); and, in a run that delivered at
\* least one layer and whose last layer has an edge, not by the comparator
\* of the final sort, not by the filter of the least weight whatever order
\* the sort left, and not by the caller on a returned path.
C19_HeadOnlyOfNonEmpty ==
  /\ (pc = "relax" /\ idx <= Len(incoming)) =>
        NULL \notin relax_head_calls([heap |-> heap, previous_layer |-> previous_layer,
                                      current_layer |-> current_layer], incoming[idx])
  /\ (pc = "loop" /\ ~state /\ LastLayerHasEdge) =>
        /\ NULL \notin sort_head_calls(previous_layer)
        /\ \A sorted \in sorted_outcomes(heap, previous_layer) :
             sorted # <<>> /\ NULL \notin filter_head_calls(sorted)
  /\ (pc = "done" /\ LastLayerHasEdge) => NULL \notin main_head_calls(result)

\* a run of two layers has returned paths; its last layer has an edge to
\* vertex 1 and none to vertex 0, so the final sort met an empty list
C19_Witness ==
  /\ pc = "done" /\ result # <<>>
  /\ Len(Delivered) = 2 /\ Delivered[1] # <<>>
  /\ {Delivered[2][i].to : i \in 1..Len(Delivered[2])} = {1}

\* the number of layers processed when the loop condition is evaluated, and
\* the k-th of them
LayersDone == layer_count - 1

Layer(k) == lines_read[k].edges

\* vertex v had a path in the path-state array after k layers
HadPath(k, v) ==
  /\ v + 1 \in DOMAIN After(k).previous_layer
  /\ After(k).previous_layer[v + 1] # NULL

\* no layer after the first restarts a path
NoRestart ==
  \A k \in 2..LayersDone : \A i \in 1..Len(Layer(k)) : HadPath(k - 1, Layer(k)[i].from)

\* path, front to back, is a well-formed path to vertex v after L layers
WellFormed(path, v, L) ==
  LET n == Len(path)
  IN /\ n >= 2 /\ n <= L + 1
     /\ path[1].vertex = v
     /\ path[n].least_total_weight_to_here = 0
     /\ \A i \in 1..(n - 1) :
          \E j \in 1..Len(Layer(L - i + 1)) :
            /\ Layer(L - i + 1)[j].from = path[i + 1].vertex
            /\ Layer(L - i + 1)[j].to = path[i].vertex
            /\ path[i].least_total_weight_to_here
                 = path[i + 1].least_total_weight_to_here + Layer(L - i + 1)[j].weight

\* C21: after L layers have been processed, every non-empty path at slot v
\* of the path-state array is well formed: its head vertex is v, its last
\* node has weight 0, each node's weight is its successor's plus the weight
\* of an edge (successor vertex, node vertex) of the corresponding layer,
\* and it has at least 2 and at most L + 1 nodes; exactly L + 1 when every
\* `from` of the layers 2..L had a path in the layer before.
C21_PathsAreWellFormed ==
  pc = "loop" =>
    \A v \in 0..(Len(previous_layer) - 1) :
      previous_layer[v + 1] # NULL =>
        /\ WellFormed(ListValues(heap, previous_layer[v + 1]), v, LayersDone)
        /\ NoRestart => Len(ListValues(heap, previous_layer[v + 1])) = LayersDone + 1

\* two layers are processed: vertex 0 has a path of three nodes and vertex
\* 1, whose `from` had no path in the first layer, a restarted one of two
C21_Witness ==
  /\ pc = "loop" /\ LayersDone = 2 /\ Len(previous_layer) = 2
  /\ previous_layer[1] # NULL /\ previous_layer[2] # NULL
  /\ Len(ListValues(heap, previous_layer[1])) = 3
  /\ Len(ListValues(heap, previous_layer[2])) = 2

====
